---------------------------- MODULE Spec2Model ----------------------------
(***************************************************************************)
(* A model of pyre's request-dispatch core (src/main.py): the Router's     *)
(* route table and handle(), the Injector's parser table and __call__,     *)
(* the two stock serializers, the per-dispatch Request/Response objects    *)
(* and the ASGI adapter application().                                     *)
(***************************************************************************)
EXTENDS Integers, Sequences, FiniteSets, TLC

VARIABLES
    handlers,    \* Router.handlers: dict (method, path) -> handler
    parsers,     \* Injector.parsers: dict type -> parser
    serializer,  \* Router.serializer: the default serializer
    heap,        \* the live Request objects (each embeds its Response)
    frames,      \* per thread of control: the dispatch it is running
    calls        \* the register calls made so far, in order

vars == <<handlers, parsers, serializer, heap, frames, calls>>

----------------------------------------------------------------------------
(* Bounds *)

\* at most this many register calls (Router and Injector together)
MaxSetup == 2

\* threads of control dispatching concurrently in SpecConc
NumThreads == 2

----------------------------------------------------------------------------
(* Inputs *)

Methods == {"GET", "POST"}

Paths == {"/text", "/text/"}

Bodies == {"", "{\"a\":1,\"b\":\"x\",\"c\":{}}"}

Types == {"Request", "Body", "Other"}

ParserNames == {"identity", "from_request"}

HandlerNames == {"a", "b", "c", "d"}

\* what the application handler d does when it runs
Choices == {"raise", "status", "text"}

----------------------------------------------------------------------------
(* Python values *)

VStr(s) == [t |-> "str", s |-> s]

VInt(n) == [t |-> "int", n |-> n]

\* items: the (key, value) pairs in insertion order
VDict(items) == [t |-> "dict", items |-> items]

\* a reference to the Request object at heap address id
VReq(id) == [t |-> "Request", id |-> id]

VBody(a, b, c) == [t |-> "Body", a |-> a, b |-> b, c |-> c]

VNone == [t |-> "None"]

Exc(type, args) == [type |-> type, args |-> args]

\* dict[key] on a missing key
KeyError(key) == Exc("KeyError", key)

Ok(v) == [ok |-> TRUE, v |-> v]

Raise(e) == [ok |-> FALSE, exc |-> e]

----------------------------------------------------------------------------
(* Serializers *)

Digit(n) ==
    CASE n = 0 -> "0" [] n = 1 -> "1" [] n = 2 -> "2" [] n = 3 -> "3"
      [] n = 4 -> "4" [] n = 5 -> "5" [] n = 6 -> "6" [] n = 7 -> "7"
      [] n = 8 -> "8" [] n = 9 -> "9"

RECURSIVE IntStr(_)
IntStr(n) == IF n < 10 THEN Digit(n) ELSE IntStr(n \div 10) \o Digit(n % 10)

RECURSIVE Join(_, _)
Join(strs, sep) ==
    IF strs = <<>> THEN ""
    ELSE IF Len(strs) = 1 THEN strs[1]
    ELSE strs[1] \o sep \o Join(Tail(strs), sep)

\* json.dumps succeeds on dicts with string keys, strings and ints
RECURSIVE JsonAble(_)
JsonAble(v) ==
    CASE v.t = "str" -> TRUE
      [] v.t = "int" -> TRUE
      [] v.t = "None" -> TRUE
      [] v.t = "dict" -> \A k \in 1..Len(v.items) : JsonAble(v.items[k][2])
      [] OTHER -> FALSE

RECURSIVE JsonText(_)
JsonText(v) ==
    CASE v.t = "str" -> "\"" \o v.s \o "\""
      [] v.t = "int" -> IntStr(v.n)
      [] v.t = "None" -> "null"
      [] v.t = "dict" ->
            "{" \o Join([k \in 1..Len(v.items) |->
                            "\"" \o v.items[k][1] \o "\": " \o JsonText(v.items[k][2])],
                        ", ") \o "}"

\* repr(obj); an object without __repr__ prints its address
RECURSIVE Repr(_)
Repr(v) ==
    CASE v.t = "str" -> "'" \o v.s \o "'"
      [] v.t = "int" -> IntStr(v.n)
      [] v.t = "None" -> "None"
      [] v.t = "dict" ->
            "{" \o Join([k \in 1..Len(v.items) |->
                            "'" \o v.items[k][1] \o "': " \o Repr(v.items[k][2])],
                        ", ") \o "}"
      [] v.t = "Request" -> "<main.Request object at " \o IntStr(v.id) \o ">"
      [] v.t = "Body" ->
            "Body(a=" \o Repr(v.a) \o ", b=" \o Repr(v.b) \o ", c=" \o Repr(v.c) \o ")"

\* str(obj)
Str(v) == IF v.t = "str" THEN v.s ELSE Repr(v)

TextSerializer(obj) == Ok(Str(obj))

JSONSerializer(obj) ==
    IF JsonAble(obj) THEN Ok(JsonText(obj))
    ELSE Raise(Exc("TypeError", <<"not JSON serializable">>))

\* serializer(obj), by the serializer's class
Encode(ser, obj) == IF ser = "Text" THEN TextSerializer(obj) ELSE JSONSerializer(obj)

content_type(ser) == IF ser = "Text" THEN "text" ELSE "application/json"

----------------------------------------------------------------------------
(* Request / Response *)

Response(ser) == [serializer |-> ser, status |-> 200]

Request(body, response) == [body |-> body, response |-> response]

RouteResponse(body, status, headers) ==
    [body |-> body, status |-> status, headers |-> headers]

\* one Response shared by every request
AllocShared(hp) == 1

\* the address a newly constructed object gets: one no live object has
Alloc(hp) == CHOOSE n \in 1..(Cardinality(DOMAIN hp) + 1) :
                 /\ n \notin DOMAIN hp
                 /\ \A k \in 1..(n - 1) : k \in DOMAIN hp

----------------------------------------------------------------------------
(* Body and the parsers *)

\* json.loads(request.body), on the bodies the model sends
json_loads(body) ==
    CASE body = "{\"a\":1,\"b\":\"x\",\"c\":{}}" ->
            Ok(VDict(<< <<"a", VInt(1)>>, <<"b", VStr("x")>>, <<"c", VDict(<<>>)>> >>))
      [] body = "{\"a\":1}" -> Ok(VDict(<< <<"a", VInt(1)>> >>))
      [] OTHER -> Raise(Exc("JSONDecodeError", <<"Expecting value">>))

Keys(d) == {d.items[k][1] : k \in 1..Len(d.items)}

Get(d, key) == d.items[CHOOSE k \in 1..Len(d.items) : d.items[k][1] = key][2]

\* Body.from_request: json.loads, then cls(**d)
from_request(request) ==
    LET d == json_loads(request.body) IN
    IF ~d.ok THEN d
    ELSE IF Keys(d.v) # {"a", "b", "c"}
         THEN Raise(Exc("TypeError", <<"__init__() arguments">>))
         ELSE Ok(VBody(Get(d.v, "a"), Get(d.v, "b"), Get(d.v, "c")))

\* dataclasses.asdict(obj)
asdict(obj) == VDict(<< <<"a", obj.a>>, <<"b", obj.b>>, <<"c", obj.c>> >>)

\* Injector.default_parsers(): Request is resolved by lambda r: r
default_parsers == [typ \in {"Request"} |-> "identity"]

\* lambda r: a copy of r
ParserCallCopy(parser, r, hp) ==
    IF parser = "identity" THEN Ok(VReq(r.id + 1)) ELSE from_request(hp[r.id])

\* parser(request): r is the reference to the request, hp the heap it lives in
ParserCall(parser, r, hp) ==
    IF parser = "identity" THEN Ok(r) ELSE from_request(hp[r.id])

\* self.parsers = {typ: parser}
registerFresh(ps, typ, parser) == [x \in {typ} |-> parser]

\* Injector.register: self.parsers[typ] = parser
register(ps, typ, parser) ==
    [x \in DOMAIN ps \cup {typ} |-> IF x = typ THEN parser ELSE ps[x]]

----------------------------------------------------------------------------
(* Handlers *)

Param(name, type) == [name |-> name, type |-> type]

\* inspect.signature(fn).parameters: the (name, annotation) pairs in order
Params(fn) ==
    CASE fn = "a" -> <<>>
      [] fn = "b" -> <<Param("r", "Request")>>
      [] fn = "c" -> <<Param("body", "Body")>>
      [] fn = "d" -> <<Param("r", "Request"), Param("x", "Other"), Param("r2", "Request")>>

Arg(kwargs, name) ==
    kwargs[CHOOSE k \in 1..Len(kwargs) : kwargs[k].name = name].value

Returned(v, hp) == [ok |-> TRUE, v |-> v, heap |-> hp]

Raised(e, hp) == [ok |-> FALSE, exc |-> e, heap |-> hp]

AttributeError(attr) == Exc("AttributeError", <<attr>>)

\* def a(): return {"result": "test"}
a(kwargs, hp) == Returned(VDict(<< <<"result", VStr("test")>> >>), hp)

\* def b(r: Request): r.response.serializer = TextSerializer(); return {"result": r}
b(kwargs, hp) ==
    LET r == Arg(kwargs, "r") IN
    IF r.t # "Request" THEN Raised(AttributeError("response"), hp)
    ELSE Returned(VDict(<< <<"result", r>> >>),
                  [hp EXCEPT ![r.id].response.serializer = "Text"])

\* def c(body: Body): return {"body": dataclasses.asdict(body)}
c(kwargs, hp) ==
    LET body == Arg(kwargs, "body") IN
    IF body.t # "Body" THEN Raised(Exc("TypeError", <<"asdict()">>), hp)
    ELSE Returned(VDict(<< <<"body", asdict(body)>> >>), hp)

\* an application handler def d(r: Request, x: Other, r2: Request) that
\* raises, or sets r.response.status, or sets r.response.serializer, and
\* then returns a string
d(kwargs, hp, choice) ==
    LET r == Arg(kwargs, "r") IN
    IF choice = "raise" THEN Raised(Exc("RuntimeError", <<"d">>), hp)
    ELSE IF r.t # "Request" THEN Raised(AttributeError("response"), hp)
    ELSE IF choice = "status"
         THEN Returned(VStr("d"), [hp EXCEPT ![r.id].response.status = 404])
         ELSE Returned(VStr("d"), [hp EXCEPT ![r.id].response.serializer = "Text"])

\* handler(**kwargs)
HandlerCall(fn, kwargs, hp, choice) ==
    CASE fn = "a" -> a(kwargs, hp)
      [] fn = "b" -> b(kwargs, hp)
      [] fn = "c" -> c(kwargs, hp)
      [] fn = "d" -> d(kwargs, hp, choice)

----------------------------------------------------------------------------
(* Router *)

\* self.handlers.setdefault((method, path), fn)
DecorateKeepFirst(h, method, path, fn) ==
    IF <<method, path>> \in DOMAIN h THEN h
    ELSE [k \in DOMAIN h \cup {<<method, path>>} |->
             IF k = <<method, path>> THEN fn ELSE h[k]]

\* path.rstrip("/") before the lookup
Strip(path) == IF path = "/text/" THEN "/text" ELSE path

LookupLoose(h, method, path) ==
    IF <<method, Strip(path)>> \in DOMAIN h
    THEN [found |-> TRUE, fn |-> h[<<method, Strip(path)>>], table |-> h]
    ELSE [found |-> FALSE, exc |-> KeyError(<<method, path>>), table |-> h]

\* the lookup goes by path alone
LookupAnyMethod(h, method, path) ==
    IF \E k \in DOMAIN h : k[2] = path
    THEN [found |-> TRUE, fn |-> h[CHOOSE k \in DOMAIN h : k[2] = path], table |-> h]
    ELSE [found |-> FALSE, exc |-> KeyError(<<method, path>>), table |-> h]

\* self.handlers.pop((method, path))
LookupPop(h, method, path) ==
    IF <<method, path>> \in DOMAIN h
    THEN [found |-> TRUE, fn |-> h[<<method, path>>],
          table |-> [k \in DOMAIN h \ {<<method, path>>} |-> h[k]]]
    ELSE [found |-> FALSE, exc |-> KeyError(<<method, path>>), table |-> h]

\* Router._decorate's decorator: self.handlers[(method, path)] = fn
Decorate(h, method, path, fn) ==
    [k \in DOMAIN h \cup {<<method, path>>} |->
        IF k = <<method, path>> THEN fn ELSE h[k]]

\* self.handlers[(method, path)]: the handler found, or KeyError; the dict is
\* left as it was
Lookup(h, method, path) ==
    IF <<method, path>> \in DOMAIN h
    THEN [found |-> TRUE, fn |-> h[<<method, path>>], table |-> h]
    ELSE [found |-> FALSE, exc |-> KeyError(<<method, path>>), table |-> h]

\* the Router's own serializer and the default status
respondDefault(request, r) ==
    LET body == Encode(serializer, r) IN
    IF ~body.ok THEN body
    ELSE Ok(RouteResponse(body.v, 200, [k \in {"content-type"} |-> content_type(serializer)]))

\* the RouteResponse built from the request after the handler returned r
respond(request, r) ==
    LET body == Encode(request.response.serializer, r) IN
    IF ~body.ok THEN body
    ELSE Ok(RouteResponse(body.v, request.response.status,
                          [k \in {"content-type"} |->
                              content_type(request.response.serializer)]))

\* self.parsers.get(annotation): a missing parser binds None
InjectStepSkip(ps, param, r, hp) ==
    IF param.type \notin DOMAIN ps
    THEN [res |-> Ok(VNone), called |-> FALSE]
    ELSE [res |-> ParserCall(ps[param.type], r, hp), called |-> TRUE]

\* one iteration of Injector.__call__'s loop, for the parameter param:
\* the parser's value or the exception, and whether a parser was called
InjectStep(ps, param, r, hp) ==
    IF param.type \notin DOMAIN ps
    THEN [res |-> Raise(KeyError(<<param.type>>)), called |-> FALSE]
    ELSE [res |-> ParserCall(ps[param.type], r, hp), called |-> TRUE]

----------------------------------------------------------------------------
(* State *)

Event(ev, what) == [ev |-> ev, what |-> what]

\* a thread of control that is not inside application()
IdleFrame ==
    [pc |-> "idle", method |-> "", path |-> "", req |-> 0, handler |-> "",
     i |-> 0, kwargs |-> <<>>, log |-> <<>>, ret |-> VNone, out |-> VNone]

\* a register call, as recorded in calls
Call(op, key, val) == [op |-> op, key |-> key, val |-> val]

RECURSIVE RoutesOf(_)
RoutesOf(cs) ==
    IF cs = <<>> THEN <<>>
    ELSE LET c0 == cs[Len(cs)]
             h == RoutesOf(SubSeq(cs, 1, Len(cs) - 1)) IN
         IF c0.op = "route" THEN Decorate(h, c0.key[1], c0.key[2], c0.val) ELSE h

RECURSIVE ParsersOf(_)
ParsersOf(cs) ==
    IF cs = <<>> THEN default_parsers
    ELSE LET c0 == cs[Len(cs)]
             ps == ParsersOf(SubSeq(cs, 1, Len(cs) - 1)) IN
         IF c0.op = "parser" THEN register(ps, c0.key[1], c0.val) ELSE ps

\* Router(serializer=JSONSerializer(), injector=Injector()), nothing registered
Init ==
    /\ handlers = <<>>
    /\ parsers = default_parsers
    /\ serializer = "JSON"
    /\ heap = <<>>
    /\ frames = [t \in {1} |-> IdleFrame]
    /\ calls = <<>>

\* the register calls main.py makes as it is imported, and two more: a
\* parser for Other and the application handler d
Imported ==
    << Call("parser", <<"Body">>, "from_request"),
       Call("route", <<"GET", "/">>, "a"),
       Call("route", <<"GET", "/text">>, "b"),
       Call("route", <<"POST", "/body">>, "c"),
       Call("parser", <<"Other">>, "identity"),
       Call("route", <<"POST", "/text">>, "d") >>

\* the server after setup, with NumThreads threads of control
InitConc ==
    /\ handlers = RoutesOf(Imported)
    /\ parsers = ParsersOf(Imported)
    /\ serializer = "JSON"
    /\ heap = <<>>
    /\ frames = [t \in 1..NumThreads |-> IdleFrame]
    /\ calls = Imported

Threads == DOMAIN frames

AllIdle == \A t \in Threads : frames[t].pc = "idle"

\* the (method, path) pairs a request may carry
RequestKeys == (Methods \X Paths) \cup DOMAIN handlers

----------------------------------------------------------------------------
(* Setup *)

\* @router.get(path) / @router.post(path) applied to fn
RouterRegister(method, path, fn) ==
    /\ Len(calls) < MaxSetup
    /\ AllIdle
    /\ handlers' = Decorate(handlers, method, path, fn)
    /\ calls' = Append(calls, Call("route", <<method, path>>, fn))
    /\ UNCHANGED <<parsers, serializer, heap, frames>>

\* injector.register(typ, parser)
InjectorRegister(typ, parser) ==
    /\ Len(calls) < MaxSetup
    /\ AllIdle
    /\ parsers' = register(parsers, typ, parser)
    /\ calls' = Append(calls, Call("parser", <<typ>>, parser))
    /\ UNCHANGED <<handlers, serializer, heap, frames>>

----------------------------------------------------------------------------
(* Dispatch *)

\* application() receives an http.request and calls router.handle, which
\* constructs the Request and looks the handler up
Handle(t, method, path, body) ==
    /\ frames[t].pc = "idle"
    /\ LET id == Alloc(heap)
           found == Lookup(handlers, method, path)
           f == [IdleFrame EXCEPT !.method = method, !.path = path, !.req = id] IN
       /\ heap' = (id :> Request(body, Response(serializer))) @@ heap
       /\ handlers' = found.table
       /\ frames' = [frames EXCEPT ![t] =
             IF found.found
             THEN [f EXCEPT !.pc = "resolve", !.handler = found.fn, !.i = 1]
             ELSE [f EXCEPT !.pc = "raised", !.out = found.exc]]
    /\ UNCHANGED <<parsers, serializer, calls>>

\* Injector.__call__: the loop's next iteration
Resolve(t) ==
    LET f == frames[t] IN
    /\ f.pc = "resolve"
    /\ f.i <= Len(Params(f.handler))
    /\ LET param == Params(f.handler)[f.i]
           step == InjectStep(parsers, param, VReq(f.req), heap)
           log == IF step.called THEN Append(f.log, Event("parser", param.type))
                  ELSE f.log IN
       frames' = [frames EXCEPT ![t] =
           IF step.res.ok
           THEN [f EXCEPT !.i = f.i + 1, !.log = log,
                          !.kwargs = Append(f.kwargs,
                                            [name |-> param.name, value |-> step.res.v])]
           ELSE [f EXCEPT !.pc = "raised", !.log = log, !.out = step.res.exc]]
    /\ UNCHANGED <<handlers, parsers, serializer, heap, calls>>

\* handler(**kwargs), once the loop is over
Invoke(t, choice) ==
    LET f == frames[t] IN
    /\ f.pc = "resolve"
    /\ f.i > Len(Params(f.handler))
    /\ LET res == HandlerCall(f.handler, f.kwargs, heap, choice)
           log == Append(f.log, Event("handler", f.handler)) IN
       /\ heap' = res.heap
       /\ frames' = [frames EXCEPT ![t] =
             IF res.ok
             THEN [f EXCEPT !.pc = "respond", !.log = log, !.ret = res.v]
             ELSE [f EXCEPT !.pc = "raised", !.log = log, !.out = res.exc]]
    /\ UNCHANGED <<handlers, parsers, serializer, calls>>

\* handle() builds and returns the RouteResponse
Respond(t) ==
    LET f == frames[t] IN
    /\ f.pc = "respond"
    /\ LET res == respond(heap[f.req], f.ret)
           log == Append(f.log, Event("serializer", heap[f.req].response.serializer)) IN
       frames' = [frames EXCEPT ![t] =
           IF res.ok
           THEN [f EXCEPT !.pc = "returned", !.log = log, !.out = res.v]
           ELSE [f EXCEPT !.pc = "raised", !.log = log, !.out = res.exc]]
    /\ UNCHANGED <<handlers, parsers, serializer, heap, calls>>

\* the object at address id is no longer referenced
Free(hp, id) == [x \in DOMAIN hp \ {id} |-> hp[x]]

\* application() sends the response start and body
Send(t) ==
    /\ frames[t].pc = "returned"
    /\ frames' = [frames EXCEPT ![t] = IdleFrame]
    /\ heap' = Free(heap, frames[t].req)
    /\ UNCHANGED <<handlers, parsers, serializer, calls>>

\* the exception leaves handle() and application()
Propagate(t) ==
    /\ frames[t].pc = "raised"
    /\ frames' = [frames EXCEPT ![t] = IdleFrame]
    /\ heap' = Free(heap, frames[t].req)
    /\ UNCHANGED <<handlers, parsers, serializer, calls>>

Next ==
    \/ \E method \in Methods, path \in Paths, fn \in HandlerNames :
           RouterRegister(method, path, fn)
    \/ \E typ \in Types, parser \in ParserNames : InjectorRegister(typ, parser)
    \/ \E t \in Threads, key \in RequestKeys, body \in Bodies :
           Handle(t, key[1], key[2], body)
    \/ \E t \in Threads : Resolve(t)
    \/ \E t \in Threads, choice \in Choices : Invoke(t, choice)
    \/ \E t \in Threads : Respond(t)
    \/ \E t \in Threads : Send(t)
    \/ \E t \in Threads : Propagate(t)

\* serving only: setup is over
NextConc ==
    \/ \E t \in Threads, key \in RequestKeys, body \in Bodies :
           Handle(t, key[1], key[2], body)
    \/ \E t \in Threads : Resolve(t)
    \/ \E t \in Threads, choice \in Choices : Invoke(t, choice)
    \/ \E t \in Threads : Respond(t)
    \/ \E t \in Threads : Send(t)
    \/ \E t \in Threads : Propagate(t)

Spec == Init /\ [][Next]_vars

SpecConc == InitConc /\ [][NextConc]_vars

----------------------------------------------------------------------------
(* Properties *)

Range(seq) == {seq[k] : k \in 1..Len(seq)}

Live == {t \in Threads : frames[t].pc # "idle"}

KeyOf(f) == <<f.method, f.path>>

\* the handlers a dispatch has invoked so far
Invoked(f) == {e.what : e \in {x \in Range(f.log) : x.ev = "handler"}}

\* the parser events of the first n declared parameters, in order
ParserEvents(fn, n) == [k \in 1..n |-> Event("parser", Params(fn)[k].type)]

\* the register calls made so far for this key, in order
CallsFor(op, key) == SelectSeq(calls, LAMBDA x : x.op = op /\ x.key = key)

Last(seq) == seq[Len(seq)]

\* C1: a dispatch uses the handler stored under exactly its (method, path):
\* it finds a handler iff that very key is registered, the handler it found
\* is the one stored under that key, and it invokes no other handler.
C1_ExactRoute ==
    \A t \in Live :
        LET f == frames[t] IN
        /\ (f.handler # "") = (KeyOf(f) \in DOMAIN handlers)
        /\ f.handler # "" => f.handler = handlers[KeyOf(f)]
        /\ Invoked(f) \subseteq {f.handler}

\* "/text/" is dispatched and its handler invoked while "/text" holds another
C1_Witness ==
    \E t \in Live :
        LET f == frames[t] IN
        /\ f.path = "/text/"
        /\ <<f.method, "/text">> \in DOMAIN handlers
        /\ Invoked(f) # {}
        /\ handlers[<<f.method, "/text">>] \notin Invoked(f)

C3_RouteNotFound ==
    \A t \in Live :
        LET f == frames[t] IN
        KeyOf(f) \notin DOMAIN handlers =>
            /\ f.pc = "raised"
            /\ f.out = KeyError(KeyOf(f))
            /\ f.log = <<>>

\* the path is registered, but under the other method
C3_Witness ==
    \E t \in Live :
        /\ KeyOf(frames[t]) \notin DOMAIN handlers
        /\ \E k \in DOMAIN handlers : k[2] = frames[t].path
        /\ frames[t].pc = "raised"

\* the value bound to each Request-typed parameter is this dispatch's Request
BoundToOwnRequest(f) ==
    \A k \in 1..Len(f.kwargs) :
        Params(f.handler)[k].type = "Request" => f.kwargs[k].value = VReq(f.req)

\* a replaced serializer encodes the body and names the content type
ReplacementUsed(f) ==
    LET ser == heap[f.req].response.serializer IN
    (f.pc = "returned" /\ ser # serializer) =>
        /\ f.out.body = Encode(ser, f.ret).v
        /\ f.out.headers["content-type"] = content_type(ser)

\* C4 as claimed: whatever has been registered, a Request-typed parameter is
\* bound to the dispatch's own Request, and a replaced serializer is the one
\* used for the RouteResponse.
C4_Original ==
    \A t \in Live : BoundToOwnRequest(frames[t]) /\ ReplacementUsed(frames[t])

\* C4, amended: as long as the parser registered for Request is the built-in
\* lambda r: r, a Request-typed parameter is bound to the dispatch's own
\* Request; and a replaced serializer is the one used for the RouteResponse.
C4_RequestBound ==
    \A t \in Live :
        /\ parsers["Request"] = "identity" => BoundToOwnRequest(frames[t])
        /\ ReplacementUsed(frames[t])

\* b got the Request, replaced the serializer and the response is text
C4_Witness ==
    \E t \in Live :
        LET f == frames[t] IN
        /\ f.handler = "b"
        /\ f.pc = "returned"
        /\ f.kwargs[1].value = VReq(f.req)
        /\ f.out.headers["content-type"] = "text"

\* the KeyError of a declared type that has no parser
Unresolved(e) == e.type = "KeyError" /\ \E typ \in Types : e.args = <<typ>>

\* C5: no exception other than the one for a declared type without a parser
\* leaves handle(): every other failure ends in a RouteResponse.
C5_NoRawFailure ==
    \A t \in Live : frames[t].pc = "raised" => Unresolved(frames[t].out)

\* the step was taken by a thread other than t
Untouched(t) == frames'[t] = frames[t]

\* C6: every dispatch has a Request of its own, whose Response starts with
\* the Router's default serializer and status 200; no step of another
\* dispatch changes it; and the Router's default serializer never changes.
C6_Isolated ==
    /\ [](/\ serializer = "JSON"
          /\ \A t \in Live : frames[t].req \in DOMAIN heap
          /\ \A t1, t2 \in Live : t1 # t2 => frames[t1].req # frames[t2].req
          /\ \A t \in Live :
                 frames[t].pc = "resolve" =>
                     heap[frames[t].req].response = Response(serializer))
    /\ [][\A t \in Live :
              Untouched(t) => /\ frames[t].req \in DOMAIN heap'
                              /\ heap'[frames[t].req] = heap[frames[t].req]]_vars

\* two dispatches in flight, one whose handler replaced its serializer and
\* one whose handler changed its status
C6_Witness ==
    \E t1, t2 \in Live :
        /\ t1 # t2
        /\ frames[t1].pc = "respond"
        /\ frames[t2].pc = "respond"
        /\ heap[frames[t1].req].response = [serializer |-> "Text", status |-> 200]
        /\ heap[frames[t2].req].response = [serializer |-> "JSON", status |-> 404]

\* the dispatch stopped at a declared type that has no parser
StoppedAtMissing(f) ==
    /\ f.pc = "raised"
    /\ f.handler # ""
    /\ Invoked(f) = {}
    /\ Len(f.kwargs) < Len(Params(f.handler))
    /\ Params(f.handler)[Len(f.kwargs) + 1].type \notin DOMAIN parsers

\* what resolution does apart from the exception's contents: parameters are
\* bound in declaration order, each by the parser of exactly its type; at a
\* type without a parser it stops, with no later parser and no handler call
ResolvesInOrder(f) ==
    LET ps == Params(f.handler)
        n == Len(f.kwargs) IN
    /\ n <= Len(ps)
    /\ \A k \in 1..n :
           /\ f.kwargs[k].name = ps[k].name
           /\ ps[k].type \in DOMAIN parsers
           /\ f.kwargs[k].value = IF parsers[ps[k].type] = "identity"
                                  THEN VReq(f.req)
                                  ELSE from_request(heap[f.req]).v
    /\ Invoked(f) # {} => n = Len(ps)
    /\ (n < Len(ps) /\ ps[n + 1].type \notin DOMAIN parsers) =>
           /\ f.pc \in {"resolve", "raised"}
           /\ f.log = ParserEvents(f.handler, n)
           /\ f.pc = "raised" => f.out.type = "KeyError" /\ f.out.args[1] = ps[n + 1].type

\* C7 as claimed: resolution is in order, by exact type, stops at a type
\* without a parser, and the exception names the missing type and the handler.
C7_Original ==
    \A t \in Live :
        LET f == frames[t] IN
        f.handler # "" =>
            /\ ResolvesInOrder(f)
            /\ StoppedAtMissing(f) => f.handler \in Range(f.out.args)

\* C7, amended: resolution is in order, by exact type, stops at a type
\* without a parser with no later parser and no handler called, and the
\* exception is the KeyError of the missing type alone: it does not name
\* the handler.
C7_Resolve ==
    \A t \in Live :
        LET f == frames[t] IN
        f.handler # "" =>
            /\ ResolvesInOrder(f)
            /\ StoppedAtMissing(f) =>
                   f.out = KeyError(<<Params(f.handler)[Len(f.kwargs) + 1].type>>)

\* d stopped at Other: r is bound, r2's parser was not called, d did not run
C7_Witness ==
    \E t \in Live :
        LET f == frames[t] IN
        /\ f.handler = "d"
        /\ StoppedAtMissing(f)
        /\ Len(f.kwargs) = 1
        /\ f.log = <<Event("parser", "Request")>>

\* C8 as claimed: the parser for Request is always the built-in identity.
C8_Original == "Request" \in DOMAIN parsers /\ parsers["Request"] = "identity"

\* C8, amended: the table always has a parser for Request; it is the
\* built-in identity until register is called for Request itself, and from
\* then on the parser of the most recent such call.
C8_RequestEntry ==
    /\ "Request" \in DOMAIN parsers
    /\ parsers["Request"] =
           IF CallsFor("parser", <<"Request">>) = <<>> THEN "identity"
           ELSE Last(CallsFor("parser", <<"Request">>)).val

\* a parser was registered for another type and Request still resolves to
\* the built-in identity
C8_Witness ==
    /\ \E x \in Range(calls) : x.op = "parser" /\ x.key # <<"Request">>
    /\ CallsFor("parser", <<"Request">>) = <<>>
    /\ parsers["Request"] = "identity"

C10_Pipeline ==
    \A t \in Live :
        LET f == frames[t]
            response == heap[f.req].response IN
        f.pc = "returned" =>
            /\ f.log = ParserEvents(f.handler, Len(Params(f.handler)))
                         \o <<Event("handler", f.handler),
                              Event("serializer", response.serializer)>>
            /\ Encode(response.serializer, f.ret).ok
            /\ f.out.body = Encode(response.serializer, f.ret).v
            /\ DOMAIN f.out.headers = {"content-type"}
            /\ f.out.headers["content-type"] = content_type(response.serializer)
            /\ f.out.status = response.status
            /\ f.handler \in {"a", "b", "c"} => f.out.status = 200

\* d changed the status and the response carries it
C10_Witness ==
    \E t \in Live :
        /\ frames[t].pc = "returned"
        /\ frames[t].handler = "d"
        /\ frames[t].out.status = 404

=============================================================================
